---- MODULE Spec2Model ----
(***************************************************************************)
(* Model of scripts/minimap2.py: extraction of differences from CIGAR      *)
(* strings (encode_diffs), pairing of mates (matchmaker), merging of the   *)
(* mates' differences (check_miss, merge_diffs), accumulation of read      *)
(* depth (parse_mm2) and normalisation into frequencies (get_frequencies). *)
(*                                                                         *)
(* The reference genome is scaled down: the source fixes its length at     *)
(* 29903 (encode_diffs' reflen, check_miss' literal, parse_mm2's maxpos);  *)
(* the model uses the one length `reflen` in all three places.             *)
(***************************************************************************)
EXTENDS Integers, Sequences, FiniteSets, TLC

\* Scaled length of the reference genome (29903 in the source).
reflen == 5

\* minimum base quality, encode_diffs' default minq
minq == 10

\* accepted character states, encode_diffs' default alphabet
alphabet == {"A", "C", "G", "T"}

(***************************************************************************)
(* Python helpers                                                          *)
(***************************************************************************)

Range(s) == {s[i] : i \in 1..Len(s)}

Min(a, b) == IF a <= b THEN a ELSE b

Max(a, b) == IF a >= b THEN a ELSE b

\* s[a:b] of Python for 0 <= a: the elements with 0-based index in [a, b),
\* clamped to the length of s
Slice(s, a, b) ==
    LET hi == Min(b, Len(s))
    IN  IF a >= hi THEN <<>> ELSE [i \in 1..(hi - a) |-> s[a + i]]

\* [value for value in s if value in t]
RECURSIVE FilterIn(_, _)
FilterIn(s, t) ==
    IF s = <<>> THEN <<>>
    ELSE (IF Head(s) \in Range(t) THEN <<Head(s)>> ELSE <<>>) \o FilterIn(Tail(s), t)

\* [value for value in s if value not in t]
RECURSIVE FilterNotIn(_, _)
FilterNotIn(s, t) ==
    IF s = <<>> THEN <<>>
    ELSE (IF Head(s) \notin Range(t) THEN <<Head(s)>> ELSE <<>>) \o FilterNotIn(Tail(s), t)

\* the orders in which list(set(...)) may enumerate the set S
Listings(S) ==
    {f \in [1..Cardinality(S) -> S] : \A i, j \in 1..Cardinality(S) : f[i] = f[j] => i = j}

\* ord(c) for the quality characters used (Phred+33)
ord(c) ==
    CASE c = "!" -> 33
      [] c = "*" -> 42
      [] c = "+" -> 43
      [] c = "I" -> 73

(***************************************************************************)
(* re.findall(r'(\d+)([MIDNSHPX=])', cigar)                                *)
(***************************************************************************)

Digits == <<"0", "1", "2", "3", "4", "5", "6", "7", "8", "9">>

IsDigit(c) == c \in Range(Digits)

DigitVal(c) == (CHOOSE i \in 1..10 : Digits[i] = c) - 1

CigarOps == {"M", "I", "D", "N", "S", "H", "P", "X", "="}

\* first index >= i of cigar that holds no digit (Len+1 when there is none)
RECURSIVE DigitEnd(_, _)
DigitEnd(cigar, i) ==
    IF i <= Len(cigar) /\ IsDigit(cigar[i]) THEN DigitEnd(cigar, i + 1) ELSE i

\* int(length)
RECURSIVE int(_)
int(ds) ==
    IF ds = <<>> THEN 0
    ELSE 10 * int(SubSeq(ds, 1, Len(ds) - 1)) + DigitVal(ds[Len(ds)])

\* the non-overlapping matches, left to right, from index i on
RECURSIVE FindAllFrom(_, _)
FindAllFrom(cigar, i) ==
    IF i > Len(cigar) THEN <<>>
    ELSE LET j == DigitEnd(cigar, i)
         IN  IF j > i /\ j <= Len(cigar) /\ cigar[j] \in CigarOps
             THEN <<[length |-> SubSeq(cigar, i, j - 1), operator |-> cigar[j]]>>
                      \o FindAllFrom(cigar, j + 1)
             ELSE FindAllFrom(cigar, i + 1)

findall(cigar) == FindAllFrom(cigar, 1)

(***************************************************************************)
(* encode_diffs                                                            *)
(***************************************************************************)

\* the loop over the bases of a mismatch run without 'N': st is
\* [diffs, missing]; i is the 0-based index into substr
RECURSIVE MismatchLoop(_, _, _, _, _)
MismatchLoop(st, substr, subqual, rpos, i) ==
    IF i >= Len(substr) THEN st
    ELSE LET nt == substr[i + 1]
             q  == ord(subqual[i + 1]) - 33
             nx == IF nt \in alphabet /\ q >= minq
                   THEN [st EXCEPT !.diffs = Append(@, <<"~", rpos + i, nt>>)]
                   ELSE [st EXCEPT !.missing = Append(@, <<rpos + i, rpos + i + 1>>)]
         IN  MismatchLoop(nx, substr, subqual, rpos, i + 1)

\* a mismatch run never taken as missing as a whole
run_has_N_unchecked(substr) == FALSE

\* operator X: "if 'N' in substr", the whole substring is taken as missing
run_has_N(substr) == "N" \in Range(substr)

\* a trailing range appended whatever the final reference cursor is
trailing_missing_always(missing, rpos) == Append(missing, <<rpos, reflen>>)

\* "update missing if sequence incomplete on the right"
trailing_missing(missing, rpos) ==
    IF rpos < reflen THEN Append(missing, <<rpos, reflen>>) ELSE missing

\* a soft clip that leaves the query cursor where it is
soft_clip_no_advance(st, length) == st

\* operator S: "discard soft clip"
soft_clip(st, length) == [st EXCEPT !.left = @ + length]

\* an unexpected operator that is passed over
unexpected_operator_ignored(st) == st

\* any other operator: print "ERROR: unexpected operator" and sys.exit()
unexpected_operator(st) == [st EXCEPT !.exited = TRUE]

\* one iteration of the loop over the tokens; st is
\* [diffs, missing, left, rpos, exited]
EncodeToken(st, tok, seq, qual) ==
    LET length   == int(tok.length)
        operator == tok.operator
        substr   == Slice(seq, st.left, st.left + length)
        subqual  == Slice(qual, st.left, st.left + length)
    IN  CASE operator = "X" ->
               LET run == IF run_has_N(substr)
                          THEN [diffs |-> st.diffs,
                                missing |-> Append(st.missing, <<st.rpos, st.rpos + length>>)]
                          ELSE MismatchLoop([diffs |-> st.diffs, missing |-> st.missing],
                                            substr, subqual, st.rpos, 0)
               IN  [st EXCEPT !.diffs = run.diffs, !.missing = run.missing,
                              !.left = @ + length, !.rpos = @ + length]
          [] operator = "S" -> soft_clip(st, length)
          [] operator = "I" ->
               [st EXCEPT !.diffs = Append(@, <<"+", st.rpos, substr>>),
                          !.left = @ + length]
          [] operator = "D" ->
               [st EXCEPT !.diffs = Append(@, <<"-", st.rpos, length>>),
                          !.rpos = @ + length]
          [] operator = "=" -> [st EXCEPT !.left = @ + length, !.rpos = @ + length]
          [] operator = "H" -> st
          [] OTHER -> unexpected_operator(st)

RECURSIVE EncodeLoop(_, _, _, _)
EncodeLoop(st, tokens, seq, qual) ==
    IF tokens = <<>> \/ st.exited THEN st
    ELSE EncodeLoop(EncodeToken(st, Head(tokens), seq, qual), Tail(tokens), seq, qual)

\* encode_diffs(row): qname, diffs, missing; `left` and `rpos` are the final query
\* and reference cursors, `exited` tells that sys.exit() was called
encode_diffs(row) ==
    LET st0 == [diffs |-> <<>>,
                missing |-> IF row.rpos > 0 THEN <<<<0, row.rpos>>>> ELSE <<>>,
                left |-> 0, rpos |-> row.rpos, exited |-> FALSE]
        st  == EncodeLoop(st0, findall(row.cigar), row.seq, row.qual)
    IN  [st EXCEPT !.missing = IF st.exited THEN @ ELSE trailing_missing(@, st.rpos)]
            @@ [qname |-> row.qname]

(***************************************************************************)
(* check_miss, merge_diffs                                                 *)
(***************************************************************************)

\* check_miss restoring whatever bound is missing, never failing
check_miss_lenient(miss) ==
    IF Len(miss) < 2
    THEN IF Len(miss) = 0 THEN [miss |-> <<<<0, 0>>, <<reflen, reflen>>>>, err |-> "ok"]
         ELSE IF miss[1][1] = 0
              THEN [miss |-> Append(miss, <<reflen, reflen>>), err |-> "ok"]
         ELSE [miss |-> <<<<0, 0>>>> \o miss, err |-> "ok"]
    ELSE [miss |-> miss, err |-> "ok"]

\* check_miss(miss): err is "ok", "SystemExit" (sys.exit()) or "IndexError"
\* (miss[0] of an empty list)
check_miss(miss) ==
    IF Len(miss) < 2
    THEN IF Len(miss) = 0 THEN [miss |-> miss, err |-> "IndexError"]
         ELSE IF miss[1][1] = 0
              THEN [miss |-> Append(miss, <<reflen, reflen>>), err |-> "ok"]
         ELSE IF miss[1][2] = reflen
              THEN [miss |-> <<<<0, 0>>>> \o miss, err |-> "ok"]
         ELSE [miss |-> miss, err |-> "SystemExit"]
    ELSE [miss |-> miss, err |-> "ok"]

\* same_coverage without the corroboration: every diff of the first mate is kept
same_coverage_uncorroborated(diff1, diff2, lo1, hi1) ==
    [diffs |-> diff1, coverage |-> <<<<lo1, hi1>>>>, err |-> "ok"]

\* merge_diffs, "same coverage: only return duplicates"
same_coverage(diff1, diff2, lo1, hi1) ==
    [diffs |-> FilterIn(diff1, diff2), coverage |-> <<<<lo1, hi1>>>>, err |-> "ok"]

\* merge_diffs, "non-overlapping, return all mutations"
non_overlapping(all_diffs, lo1, hi1, lo2, hi2) ==
    [diffs |-> all_diffs, coverage |-> <<<<lo1, hi1>>, <<lo2, hi2>>>>, err |-> "ok"]

\* merge_diffs, "imperfect overlap"
imperfect_overlap(diff1, diff2, all_diffs, lo1, hi1, lo2, hi2) ==
    LET cov_union     == <<Min(lo1, lo2), Max(hi1, hi2)>>
        cov_intersect == <<Max(lo1, lo2), Min(hi1, hi2)>>
        return_diffs  == FilterIn(diff1, diff2)
        diff_diffs    == FilterNotIn(all_diffs, return_diffs)
        accepted      ==
            SelectSeq(diff_diffs,
                      LAMBDA d : /\ cov_union[1] <= d[2] /\ d[2] <= cov_union[2]
                                 /\ ~(cov_intersect[1] <= d[2] /\ d[2] <= cov_intersect[2]))
    IN  [diffs |-> return_diffs \o accepted, coverage |-> <<cov_union>>, err |-> "ok"]

\* merge_diffs(diff1, diff2, miss1, miss2); all_diffs is list(set(diff1 + diff2)),
\* whose order the caller chooses; err is the exception check_miss ends with
merge_diffs(diff1, diff2, miss1, miss2, all_diffs) ==
    LET c1 == check_miss(miss1)
        c2 == check_miss(miss2)
    IN  IF c1.err # "ok" THEN [diffs |-> <<>>, coverage |-> <<>>, err |-> c1.err]
        ELSE IF c2.err # "ok" THEN [diffs |-> <<>>, coverage |-> <<>>, err |-> c2.err]
        ELSE
        LET lo1 == c1.miss[1][2]
            hi1 == c1.miss[2][1]
            lo2 == c2.miss[1][2]
            hi2 == c2.miss[2][1]
        IN  IF c1.miss = c2.miss THEN same_coverage(diff1, diff2, lo1, hi1)
            ELSE IF lo1 > hi2 \/ lo2 > hi1
            THEN non_overlapping(all_diffs, lo1, hi1, lo2, hi2)
            ELSE imperfect_overlap(diff1, diff2, all_diffs, lo1, hi1, lo2, hi2)

(***************************************************************************)
(* get_frequencies                                                         *)
(***************************************************************************)

\* str(n) for an integer n >= 0, as a sequence of characters
RECURSIVE str(_)
str(n) == IF n < 10 THEN <<Digits[n + 1]>> ELSE str(n \div 10) \o <<Digits[(n % 10) + 1]>>

\* ''.join(map(str, [typ, pos+1, mut])) for a substitution,
\* ''.join(map(str, [typ, pos+1, ".", mut])) for an insertion or deletion
canonical_key(diff) ==
    LET typ == diff[1]
        pos == diff[2]
        mut == diff[3]
    IN  IF typ = "~" THEN <<typ>> \o str(pos + 1) \o <<mut>>
        ELSE <<typ>> \o str(pos + 1) \o <<".">> \o (IF typ = "-" THEN str(mut) ELSE mut)

RECURSIVE Gcd(_, _)
Gcd(a, b) == IF b = 0 THEN a ELSE Gcd(b, a % b)

\* c + 1/denom; a count is the exact fraction [num, den] in lowest terms (the
\* source adds Python floats; the rounding of the sum is not modelled)
AddReciprocal(c, denom) ==
    LET n == c.num * denom + c.den
        d == c.den * denom
        g == Gcd(n, d)
    IN  [num |-> n \div g, den |-> d \div g]

\* get_frequencies without the test of the depth
zero_depth_unchecked(denom) == FALSE

\* "if denom == 0: continue"
zero_depth(denom) == denom = 0

\* "=" in place of "+=": the count is overwritten
accumulate_overwrite(c, denom) == [num |-> 1, den |-> denom]

\* "counts[pos][key]['count'] += 1/denom"
accumulate(c, denom) == AddReciprocal(c, denom)

\* the body of the inner loop for diff i of a row of res; st is [counts, err]
FrequencyStep(st, row, i, coverage) ==
    LET diff  == row.diff[i]
        pos   == diff[2]
        label == row.mutations[i]
    IN  IF pos \notin DOMAIN coverage THEN [st EXCEPT !.err = "KeyError"]
        ELSE LET denom == coverage[pos]
             IN  IF zero_depth(denom) THEN st
                 ELSE LET key == canonical_key(diff)
                          c1  == IF pos \notin DOMAIN st.counts
                                 THEN (pos :> <<>>) @@ st.counts ELSE st.counts
                          c2  == IF key \notin DOMAIN c1[pos]
                                 THEN [c1 EXCEPT ![pos] =
                                          (key :> [label |-> label,
                                                   count |-> [num |-> 0, den |-> 1]]) @@ @]
                                 ELSE c1
                      IN  [st EXCEPT !.counts =
                              [c2 EXCEPT ![pos][key].count = accumulate(@, denom)]]

RECURSIVE FrequencyRow(_, _, _, _)
FrequencyRow(st, row, i, coverage) ==
    IF i > Len(row.diff) \/ st.err # "ok" THEN st
    ELSE FrequencyRow(FrequencyStep(st, row, i, coverage), row, i + 1, coverage)

RECURSIVE FrequencyLoop(_, _, _)
FrequencyLoop(st, rows, coverage) ==
    IF rows = <<>> \/ st.err # "ok" THEN st
    ELSE FrequencyLoop(FrequencyRow(st, Head(rows), 1, coverage), Tail(rows), coverage)

\* get_frequencies(res, coverage): counts, or err = "KeyError" when a diff's
\* position is no key of the depth table
get_frequencies(rows, coverage) ==
    FrequencyLoop([counts |-> <<>>, err |-> "ok"], rows, coverage)

(***************************************************************************)
(* parse_mm2: the body of its loop                                         *)
(***************************************************************************)

\* locator.parse_mutation(d): the label of the external locator, opaque here
parse_mutation(d) == <<"label", d>>

\* for pos in range(left, right): total_coverage[pos] += 1
\* a depth counted at the first position of the interval only
IncrementFirst(tc, pos, right) ==
    IF pos >= right THEN tc ELSE [tc EXCEPT ![pos] = @ + 1]

\* for pos in range(left, right): total_coverage[pos] += 1
RECURSIVE IncrementRange(_, _, _)
IncrementRange(tc, pos, right) ==
    IF pos >= right THEN tc
    ELSE IncrementRange([tc EXCEPT ![pos] = @ + 1], pos + 1, right)

\* for left, right in coverage: ...
RECURSIVE AddCoverage(_, _)
AddCoverage(tc, coverage) ==
    IF coverage = <<>> THEN tc
    ELSE AddCoverage(IncrementRange(tc, Head(coverage)[1], Head(coverage)[2]),
                     Tail(coverage))

\* the coverage of a single read: the gaps between consecutive missing ranges
RECURSIVE SingleCoverage(_, _)
SingleCoverage(miss, i) ==
    IF i > Len(miss) - 1 THEN <<>>
    ELSE LET left  == miss[i][2]
             right == miss[i + 1][1]
         IN  (IF left = right THEN <<>> ELSE <<<<left, right>>>>)
                 \o SingleCoverage(miss, i + 1)

\* [locator.parse_mutation(d) for d in diffs]
Mutations(diffs) == [i \in 1..Len(diffs) |-> parse_mutation(diffs[i])]

(***************************************************************************)
(* The run: minimap2's records -> matchmaker -> parse_mm2 -> get_frequencies*)
(***************************************************************************)

\* Bound on the number of records read from the alignment stream.
MaxRecords == 4

\* Bound on parse_mm2's cap `stop`; stop = 0 stands for None (no cap).
MaxStop == 1

VARIABLES
    paired,          \* parse_mm2's paired
    stop,            \* parse_mm2's stop (0: None)
    seen,            \* the records read from mm2 so far, in order
    cached_rows,     \* matchmaker's cached_rows: qname -> pending record
    yielded,         \* the pairs matchmaker has yielded, in order
    count,           \* parse_mm2's count
    total_coverage,  \* parse_mm2's total_coverage: position -> depth
    res,             \* parse_mm2's res
    covlog,          \* the coverage intervals accumulated so far, in order
    counts,          \* the dictionary get_frequencies returns
    last,            \* the last run of the loop body: its record(s), what
                     \* encode_diffs returned for them, and the diffs and
                     \* coverage it went on with (err: the exception)
    pc               \* "loop": parse_mm2 awaits the next record; "returned":
                     \* parse_mm2 has returned; "done": get_frequencies has
                     \* returned; "SystemExit", "IndexError", "KeyError",
                     \* "ValueError": the process has ended with that exception

vars == <<paired, stop, seen, cached_rows, yielded, count, total_coverage, res,
          covlog, counts, last, pc>>

Chars(n, c) == [i \in 1..n |-> c]

\* The reads of the alignment stream: rpos (0-indexed), cigar, seq, qual.
Reads ==
    << \* [0,4), substitution T at 3
       [rpos |-> 0, cigar |-> <<"3", "=", "1", "X">>,
        seq |-> <<"A", "A", "A", "T">>, qual |-> Chars(4, "I")],
       \* [2,reflen), substitution T at 3
       [rpos |-> 2, cigar |-> <<"1", "=", "1", "X">> \o str(reflen - 4) \o <<"=">>,
        seq |-> <<"A", "T">> \o Chars(reflen - 4, "A"), qual |-> Chars(reflen - 2, "I")],
       \* [1,5): low-quality base at 2 inside a mismatch run, substitution T at 3
       [rpos |-> 1, cigar |-> <<"1", "=", "2", "X", "1", "=">>,
        seq |-> <<"A", "T", "T", "A">>, qual |-> <<"I", "*", "I", "I">>],
       \* operator M
       [rpos |-> 0, cigar |-> <<"2", "M">>,
        seq |-> <<"A", "A">>, qual |-> Chars(2, "I")],
       \* the whole genome, no difference
       [rpos |-> 0, cigar |-> str(reflen) \o <<"=">>,
        seq |-> Chars(reflen, "A"), qual |-> Chars(reflen, "I")],
       \* the whole genome, N at 2
       [rpos |-> 0, cigar |-> <<"2", "=", "1", "X">> \o str(reflen - 3) \o <<"=">>,
        seq |-> <<"A", "A", "N">> \o Chars(reflen - 3, "A"), qual |-> Chars(reflen, "I")],
       \* [reflen-2,reflen), insertion after the last base of the genome
       [rpos |-> reflen - 2, cigar |-> <<"2", "=", "1", "I">>,
        seq |-> <<"A", "A", "G">>, qual |-> Chars(3, "I")],
       \* [reflen-1,reflen), substitution T at reflen-1
       [rpos |-> reflen - 1, cigar |-> <<"1", "X">>,
        seq |-> <<"T">>, qual |-> Chars(1, "I")],
       \* [2,4), no difference
       [rpos |-> 2, cigar |-> <<"2", "=">>,
        seq |-> <<"A", "A">>, qual |-> Chars(2, "I")] >>

\* the records minimap2() may yield as line ln: every read under query name
\* "a", the first two reads under query name "b" as well
Rows(ln) ==
    {[qname |-> "a", rpos |-> Reads[t].rpos, cigar |-> Reads[t].cigar,
      seq |-> Reads[t].seq, qual |-> Reads[t].qual, ln |-> ln] : t \in 1..Len(Reads)}
    \cup
    {[qname |-> "b", rpos |-> Reads[t].rpos, cigar |-> Reads[t].cigar,
      seq |-> Reads[t].seq, qual |-> Reads[t].qual, ln |-> ln] : t \in 1..2}

Init ==
    /\ paired \in BOOLEAN
    /\ stop \in 0..MaxStop
    /\ seen = <<>>
    /\ cached_rows = <<>>
    /\ yielded = <<>>
    /\ count = 0
    /\ total_coverage = [pos \in 0..(reflen - 1) |-> 0]
    /\ res = <<>>
    /\ covlog = <<>>
    /\ counts = <<>>
    /\ last = [rows |-> <<>>, enc |-> <<>>, diffs |-> <<>>, coverage |-> <<>>,
               err |-> "ok"]
    /\ pc = "loop"

\* parse_mm2, lines 248-258: accumulate the coverage, append to res, count, and
\* leave the loop when the cap is exceeded
Accumulate(diffs, coverage) ==
    /\ total_coverage' = AddCoverage(total_coverage, coverage)
    /\ covlog' = covlog \o coverage
    /\ res' = Append(res, [diff |-> diffs, mutations |-> Mutations(diffs)])
    /\ count' = count + 1
    /\ pc' = IF stop # 0 /\ count + 1 > stop THEN "returned" ELSE "loop"

\* the process ends with exception err
Raise(err) ==
    /\ pc' = err
    /\ UNCHANGED <<count, total_coverage, res, covlog>>

\* matchmaker yielding the pair in the order (current, pending)
matchmaker_swapped(cached, row) ==
    IF row.qname \notin DOMAIN cached
    THEN [cached_rows |-> (row.qname :> row) @@ cached, yield |-> <<>>]
    ELSE [cached_rows |-> [q \in DOMAIN cached \ {row.qname} |-> cached[q]],
          yield |-> <<<<row, cached[row.qname]>>>>]

\* matchmaker caching the current record as well when it yields a pair
matchmaker_recache(cached, row) ==
    IF row.qname \notin DOMAIN cached
    THEN [cached_rows |-> (row.qname :> row) @@ cached, yield |-> <<>>]
    ELSE [cached_rows |-> (row.qname :> row) @@ cached,
          yield |-> <<<<cached[row.qname], row>>>>]

\* matchmaker reading the pending record with get() instead of pop(): the
\* record stays in the cache
matchmaker_no_pop(cached, row) ==
    IF row.qname \notin DOMAIN cached
    THEN [cached_rows |-> (row.qname :> row) @@ cached, yield |-> <<>>]
    ELSE [cached_rows |-> cached, yield |-> <<<<cached[row.qname], row>>>>]

\* one iteration of matchmaker's loop: the cache it leaves and the pairs it
\* yields (none or one)
matchmaker(cached, row) ==
    IF row.qname \notin DOMAIN cached
    THEN [cached_rows |-> (row.qname :> row) @@ cached, yield |-> <<>>]
    ELSE [cached_rows |-> [q \in DOMAIN cached \ {row.qname} |-> cached[q]],
          yield |-> <<<<cached[row.qname], row>>>>]

\* matchmaker reads a record whose qname is not pending: it is cached and
\* nothing is yielded
MatchmakerCache(row) ==
    /\ pc = "loop"
    /\ Len(seen) < MaxRecords
    /\ paired
    /\ row.qname \notin DOMAIN cached_rows
    /\ seen' = Append(seen, row)
    /\ cached_rows' = matchmaker(cached_rows, row).cached_rows
    /\ yielded' = yielded \o matchmaker(cached_rows, row).yield
    /\ UNCHANGED <<paired, stop, count, total_coverage, res, covlog, counts,
                   last, pc>>

\* matchmaker reads a record whose qname is pending: it yields the pair, and
\* parse_mm2 runs the body of its loop on the pair
MatchmakerYield(row) ==
    /\ pc = "loop"
    /\ Len(seen) < MaxRecords
    /\ paired
    /\ row.qname \in DOMAIN cached_rows
    /\ \E mm \in {matchmaker(cached_rows, row)} :
       \E r1 \in {mm.yield[1][1]}, r2 \in {mm.yield[1][2]} :
       \E e1 \in {encode_diffs(r1)}, e2 \in {encode_diffs(r2)} :
           /\ seen' = Append(seen, row)
           /\ cached_rows' = mm.cached_rows
           /\ yielded' = yielded \o mm.yield
           /\ IF e1.exited
              THEN /\ Raise("SystemExit")
                   /\ last' = [rows |-> <<r1, r2>>, enc |-> <<e1>>, diffs |-> <<>>,
                               coverage |-> <<>>, err |-> "SystemExit"]
              ELSE IF e2.exited
              THEN /\ Raise("SystemExit")
                   /\ last' = [rows |-> <<r1, r2>>, enc |-> <<e1, e2>>,
                               diffs |-> <<>>, coverage |-> <<>>, err |-> "SystemExit"]
              ELSE \E all_diffs \in Listings(Range(e1.diffs \o e2.diffs)) :
                     \E m \in {merge_diffs(e1.diffs, e2.diffs, e1.missing, e2.missing,
                                           all_diffs)} :
                         /\ last' = [rows |-> <<r1, r2>>, enc |-> <<e1, e2>>,
                                     diffs |-> m.diffs, coverage |-> m.coverage,
                                     err |-> m.err]
                         /\ IF m.err # "ok" THEN Raise(m.err)
                            ELSE Accumulate(m.diffs, m.coverage)
    /\ UNCHANGED <<paired, stop, counts>>

\* parse_mm2 with paired = False runs the body of its loop on the record
SingleRead(row) ==
    /\ pc = "loop"
    /\ Len(seen) < MaxRecords
    /\ ~paired
    /\ seen' = Append(seen, row)
    /\ \E e \in {encode_diffs(row)} :
           IF e.exited
           THEN /\ Raise("SystemExit")
                /\ last' = [rows |-> <<row>>, enc |-> <<e>>, diffs |-> <<>>,
                            coverage |-> <<>>, err |-> "SystemExit"]
           ELSE /\ Accumulate(e.diffs, SingleCoverage(e.missing, 1))
                /\ last' = [rows |-> <<row>>, enc |-> <<e>>, diffs |-> e.diffs,
                            coverage |-> SingleCoverage(e.missing, 1), err |-> "ok"]
    /\ UNCHANGED <<paired, stop, cached_rows, yielded, counts>>

\* the stream ends: matchmaker returns, its cache is dropped, parse_mm2 returns
EndOfStream ==
    /\ pc = "loop"
    /\ pc' = "returned"
    /\ UNCHANGED <<paired, stop, seen, cached_rows, yielded, count, total_coverage,
                   res, covlog, counts, last>>

\* an exception of the iterator caught by the loop, which then returns
caught(err) == "returned"

\* parse_mm2 has no handler around its loop: an exception raised by the
\* iterator passes through it, and through __main__
propagate(err) == err

\* minimap2 fails on the next line of the stream (a line of fewer than 11
\* fields, or a flag or position that is no integer, raises ValueError)
StreamFailure ==
    /\ pc = "loop"
    /\ pc' = propagate("ValueError")
    /\ last' = [rows |-> <<>>, enc |-> <<>>, diffs |-> <<>>, coverage |-> <<>>,
                err |-> "ValueError"]
    /\ UNCHANGED <<paired, stop, seen, cached_rows, yielded, count, total_coverage,
                   res, covlog, counts>>

\* __main__: counts = get_frequencies(res, coverage)
GetFrequencies ==
    /\ pc = "returned"
    /\ \E f \in {get_frequencies(res, total_coverage)} :
           /\ counts' = IF f.err = "ok" THEN f.counts ELSE counts
           /\ pc' = IF f.err = "ok" THEN "done" ELSE f.err
    /\ UNCHANGED <<paired, stop, seen, cached_rows, yielded, count, total_coverage,
                   res, covlog, last>>

Next ==
    \/ \E row \in Rows(Len(seen) + 1) : MatchmakerCache(row)
    \/ \E row \in Rows(Len(seen) + 1) : MatchmakerYield(row)
    \/ \E row \in Rows(Len(seen) + 1) : SingleRead(row)
    \/ StreamFailure
    \/ EndOfStream
    \/ GetFrequencies

Spec == Init /\ [][Next]_vars

\* __main__: what `res, coverage = parse_mm2(...)` has bound (nothing until
\* parse_mm2 returns)
Received ==
    IF pc \in {"returned", "done", "KeyError"} THEN <<res, total_coverage>> ELSE <<>>

\* __main__: the rows written to the .mapped.csv file, by the name of their
\* column in the order written (position, mutation key, label, count, depth)
Records ==
    IF pc # "done" THEN {}
    ELSE UNION {{[position  |-> pos,
                  mutation  |-> key,
                  label     |-> counts[pos][key].label,
                  frequency |-> counts[pos][key].count,
                  coverage  |-> total_coverage[pos]] : key \in DOMAIN counts[pos]} :
                pos \in DOMAIN counts}

(***************************************************************************)
(* Bounded families of reads for the checks of encode_diffs and merge_diffs*)
(***************************************************************************)

\* Bound on the number of CIGAR operators of an enumerated read.
MaxOps == 2

\* Bound on the length of one CIGAR operator of an enumerated read.
MaxLen == 2

\* the operators of SAM that consume the query, and the reference
QueryOps == {"M", "=", "X", "S", "I"}

RefOps == {"M", "=", "X", "D"}

\* base calls <<base, quality character>>: at the quality threshold, one below
\* it, the ambiguous codes N and R
GoodCall == <<"T", "+">>

BadCalls == {<<"T", "*">>, <<"N", "I">>, <<"R", "I">>}

\* the base calls under a mismatch run of length n: all good, or one bad call
MismatchCalls(n) ==
    {[i \in 1..n |-> GoodCall]}
        \cup {[i \in 1..n |-> IF i = p THEN b ELSE GoodCall] : p \in 1..n, b \in BadCalls}

\* one CIGAR operator with the base calls of the query it consumes
OpsWithCalls(ops) ==
    UNION {{[n |-> n, op |-> op, calls |-> c] :
              c \in IF op = "X" THEN MismatchCalls(n)
                    ELSE IF op \in QueryOps THEN {[i \in 1..n |-> <<"A", "I">>]}
                    ELSE {<<>>}} :
           n \in 1..MaxLen, op \in ops}

\* the concatenation of a sequence of sequences
RECURSIVE Flatten(_)
Flatten(ss) == IF ss = <<>> THEN <<>> ELSE Head(ss) \o Flatten(Tail(ss))

RECURSIVE RefLength(_)
RefLength(ts) ==
    IF ts = <<>> THEN 0
    ELSE (IF Head(ts).op \in RefOps THEN Head(ts).n ELSE 0) + RefLength(Tail(ts))

\* the read at rpos made of the operators ts
ReadOf(rpos, ts) ==
    [rpos  |-> rpos,
     cigar |-> Flatten([k \in 1..Len(ts) |-> str(ts[k].n) \o <<ts[k].op>>]),
     seq   |-> Flatten([k \in 1..Len(ts) |->
                           [i \in 1..Len(ts[k].calls) |-> ts[k].calls[i][1]]]),
     qual  |-> Flatten([k \in 1..Len(ts) |->
                           [i \in 1..Len(ts[k].calls) |-> ts[k].calls[i][2]]])]

\* the record of line ln with query name q for a read
RowOf(q, read, ln) ==
    [qname |-> q, rpos |-> read.rpos, cigar |-> read.cigar, seq |-> read.seq,
     qual |-> read.qual, ln |-> ln]

\* the operators of the enumerated reads: M = X S I D H with their base calls
EncodeOps == OpsWithCalls({"M", "=", "X", "S", "I", "D", "H"})

\* where a read of operators ts starts: at the left end, one base in, or so
\* that it ends at the right end of the genome; never running over that end
Starts(ts) == {0, 1, reflen - RefLength(ts)} \cap 0..(reflen - RefLength(ts))

\* reads covering the nonempty [s, e) with at most one feature at p, between
\* two runs of matches: a mismatch (good, N or low-quality), an insertion, a
\* deletion, or an N followed by a good mismatch
Features ==
    {<<>>}
        \cup {<<[n |-> 1, op |-> "X", calls |-> <<c>>]>> :
                 c \in {GoodCall, <<"N", "I">>, <<"T", "*">>}}
        \cup {<<[n |-> 1, op |-> "I", calls |-> <<<<"G", "I">>>>]>>,
              <<[n |-> 1, op |-> "D", calls |-> <<>>]>>,
              <<[n |-> 1, op |-> "X", calls |-> <<<<"N", "I">>>>],
                [n |-> 1, op |-> "X", calls |-> <<GoodCall>>]>>}

Matches(n) ==
    IF n = 0 THEN <<>> ELSE <<[n |-> n, op |-> "=", calls |-> [i \in 1..n |-> <<"A", "I">>]]>>

\* <<s, e, f, p>>: the read covers [s, e) and has feature f at p; a deletion
\* lies between two matches
MergeShapes ==
    {sh \in (0..(reflen - 1)) \X (1..reflen) \X Features \X (0..reflen) :
        /\ sh[1] < sh[2]
        /\ sh[1] <= sh[4]
        /\ sh[4] + RefLength(sh[3]) <= sh[2]
        /\ (sh[3] # <<>> /\ sh[3][1].op = "D") =>
               (sh[1] < sh[4] /\ sh[4] + RefLength(sh[3]) < sh[2])}

MergeRead(sh) ==
    ReadOf(sh[1], Matches(sh[4] - sh[1]) \o sh[3]
                      \o Matches(sh[2] - sh[4] - RefLength(sh[3])))

(***************************************************************************)
(* SpecEncode: parse_mm2 with paired = False on one enumerated read.       *)
(* SpecMerge: parse_mm2 with paired = True on two enumerated mates.        *)
(***************************************************************************)

InitEncode ==
    /\ Init
    /\ ~paired
    /\ stop = 0

NextEncode ==
    \/ /\ Len(seen) < 1
       /\ \E k \in 1..MaxOps : \E ts \in [1..k -> EncodeOps] : \E rpos \in Starts(ts) :
             SingleRead(RowOf("a", ReadOf(rpos, ts), 1))
    \/ /\ Len(seen) < 1
       /\ \E row \in Rows(1) : SingleRead(row)
    \/ EndOfStream
    \/ GetFrequencies

SpecEncode == InitEncode /\ [][NextEncode]_vars

InitMerge ==
    /\ Init
    /\ paired
    /\ stop = 0

NextMerge ==
    \/ /\ Len(seen) < 1
       /\ \E sh \in MergeShapes : MatchmakerCache(RowOf("a", MergeRead(sh), 1))
    \/ /\ Len(seen) < 2
       /\ \E sh \in MergeShapes : MatchmakerYield(RowOf("a", MergeRead(sh), 2))

SpecMerge == InitMerge /\ [][NextMerge]_vars

(***************************************************************************)
(* Properties of merge_diffs (under SpecMerge)                             *)
(***************************************************************************)

\* the last run of the loop body merged two mates
Merged == Len(last.enc) = 2 /\ last.err = "ok"

diff1 == last.enc[1].diffs

diff2 == last.enc[2].diffs

\* the covered spans [lo, hi) of the mates, from their normalised missing ranges
lo1 == check_miss(last.enc[1].missing).miss[1][2]

hi1 == check_miss(last.enc[1].missing).miss[2][1]

lo2 == check_miss(last.enc[2].missing).miss[1][2]

hi2 == check_miss(last.enc[2].missing).miss[2][1]

IdenticalSpans == lo1 = lo2 /\ hi1 = hi2

DisjointSpans == ~IdenticalSpans /\ (hi1 <= lo2 \/ hi2 <= lo1)

PartialOverlap == ~IdenticalSpans /\ hi1 > lo2 /\ hi2 > lo1

InHalfOpen(p, lo, hi) == lo <= p /\ p < hi

\* neither mate has an internal missing range: every missing range of both
\* touches an end of the genome
BoundaryOnly ==
    \A k \in 1..2 : \A m \in Range(last.enc[k].missing) : m[1] = 0 \/ m[2] = reflen

C2_DisjointUnion ==
    (Merged /\ BoundaryOnly /\ DisjointSpans) =>
        Range(last.diffs) = Range(diff1) \cup Range(diff2)

\* C3 (as claimed, for mates without internal missing ranges): in a partial
\* overlap every diff of both mates is retained,
\* a diff of exactly one mate is retained iff its position lies in the
\* half-open covered union and not in the half-open covered intersection, and
\* the coverage is the covered union.
C3_PartialOverlap ==
    (Merged /\ BoundaryOnly /\ PartialOverlap) =>
        /\ Range(last.diffs) \subseteq Range(diff1) \cup Range(diff2)
        /\ \A d \in Range(diff1) \cap Range(diff2) : d \in Range(last.diffs)
        /\ \A d \in (Range(diff1) \cup Range(diff2)) \ (Range(diff1) \cap Range(diff2)) :
              d \in Range(last.diffs) <=>
                  /\ InHalfOpen(d[2], Min(lo1, lo2), Max(hi1, hi2))
                  /\ ~InHalfOpen(d[2], Max(lo1, lo2), Min(hi1, hi2))
        /\ last.coverage = <<<<Min(lo1, lo2), Max(hi1, hi2)>>>>

(***************************************************************************)
(* Properties of matchmaker (under Spec)                                   *)
(***************************************************************************)

Qnames == {"a", "b"}

\* the number of records with query name q read so far
Occurrences(q) == Cardinality({i \in 1..Len(seen) : seen[i].qname = q})

\* C4: a record arriving under a pending query name removes the pending record
\* from the cache and yields (pending, arriving) in that order; a record
\* arriving under a name that is not pending yields nothing and becomes
\* pending; both records of a yielded pair share the query name.
C4_Pairing ==
    /\ [][(paired /\ Len(seen') = Len(seen) + 1) =>
            LET row == seen'[Len(seen')]
            IN  IF row.qname \in DOMAIN cached_rows
                THEN /\ yielded' = Append(yielded, <<cached_rows[row.qname], row>>)
                     /\ DOMAIN cached_rows' = DOMAIN cached_rows \ {row.qname}
                     /\ \A q \in DOMAIN cached_rows' : cached_rows'[q] = cached_rows[q]
                ELSE /\ yielded' = yielded
                     /\ DOMAIN cached_rows' = DOMAIN cached_rows \cup {row.qname}
                     /\ cached_rows'[row.qname] = row
                     /\ \A q \in DOMAIN cached_rows : cached_rows'[q] = cached_rows[q]]_vars
    /\ [](\A i \in 1..Len(yielded) :
             /\ yielded[i][1].qname = yielded[i][2].qname
             /\ yielded[i][1].ln < yielded[i][2].ln)

\* C4 witness: a pair of two different reads has been yielded, first-seen
\* first, and another record is pending.
C4_Witness ==
    /\ pc = "loop"
    /\ Len(yielded) >= 1
    /\ yielded[1][1].rpos # yielded[1][2].rpos
    /\ yielded[1][1].ln < yielded[1][2].ln
    /\ DOMAIN cached_rows # {}

\* C5: every record is in at most one yielded pair, a pending record is in
\* none, a query name read n times has yielded n \div 2 pairs, and res holds
\* one entry per yielded pair, made of diffs of that pair's records only.
C5_EndOfStream ==
    paired =>
        /\ \A i, j \in 1..Len(yielded) : \A a, b \in 1..2 :
              yielded[i][a].ln = yielded[j][b].ln => (i = j /\ a = b)
        /\ \A q \in DOMAIN cached_rows : \A i \in 1..Len(yielded) : \A a \in 1..2 :
              yielded[i][a].ln # cached_rows[q].ln
        /\ \A q \in Qnames :
              Cardinality({i \in 1..Len(yielded) : yielded[i][1].qname = q})
                  = Occurrences(q) \div 2
        /\ Len(res) <= Len(yielded)
        /\ pc \in {"loop", "returned", "done", "KeyError"} => Len(res) = Len(yielded)
        /\ \A i \in 1..Len(res) :
              Range(res[i].diff) \subseteq
                  Range(encode_diffs(yielded[i][1]).diffs)
                      \cup Range(encode_diffs(yielded[i][2]).diffs)

\* C5 witness: the stream has ended with three records read under one query
\* name: one pair was yielded, and the third record, which has a diff, is still
\* pending and in no entry of res.
C5_Witness ==
    /\ paired /\ stop = 0 /\ pc = "returned"
    /\ Len(seen) = 3 /\ Occurrences("a") = 3
    /\ Len(yielded) = 1 /\ Len(res) = 1
    /\ "a" \in DOMAIN cached_rows
    /\ cached_rows["a"].ln = 3
    /\ encode_diffs(cached_rows["a"]).diffs # <<>>
    /\ res[1].diff = <<>>

(***************************************************************************)
(* Properties of get_frequencies (under Spec)                              *)
(***************************************************************************)

\* the retained diffs of the run, over all entries of res
RetainedDiffs == UNION {Range(res[r].diff) : r \in 1..Len(res)}

\* the number of occurrences of diff d in the diff lists of res
Retained(d) ==
    Cardinality({ri \in (1..Len(res)) \X (1..reflen + 2) :
                    ri[2] <= Len(res[ri[1]].diff) /\ res[ri[1]].diff[ri[2]] = d})

\* C6: after get_frequencies no position of depth 0 is a key of its output;
\* every retained diff at a position of depth > 0 has its key there; and it
\* ends without error unless a retained diff lies at no position of the table.
C6_ZeroDepth ==
    /\ \A pos \in DOMAIN counts : total_coverage[pos] # 0
    /\ pc = "done" =>
          \A d \in RetainedDiffs :
              (d[2] \in DOMAIN total_coverage /\ total_coverage[d[2]] # 0) =>
                  (d[2] \in DOMAIN counts /\ canonical_key(d) \in DOMAIN counts[d[2]])
    /\ pc = "KeyError" => \E d \in RetainedDiffs : d[2] \notin DOMAIN total_coverage

\* C6 witness: get_frequencies has returned; a retained diff lies at a
\* position of depth 0 and another key is counted.
C6_Witness ==
    /\ pc = "done"
    /\ \E d \in RetainedDiffs : total_coverage[d[2]] = 0 /\ d[2] \notin DOMAIN counts
    /\ counts # <<>>

OperatorsOf(row) ==
    {findall(row.cigar)[i].operator : i \in 1..Len(findall(row.cigar))}

\* the last run of the loop body encoded one read (paired = False)
Encoded == Len(last.rows) = 1 /\ Len(last.enc) = 1

\* C8 (as claimed): for a read with a well-formed CIGAR string over M = X S I D
\* H, encode_diffs completes with its query cursor at the length of the
\* sequence.
C8_QueryCursorWithM ==
    Encoded => (~last.enc[1].exited /\ last.enc[1].left = Len(last.rows[1].seq))

\* C8 (amended): for a read with a well-formed CIGAR string over = X S I D H,
\* encode_diffs completes with its query cursor at the length of the sequence;
\* a CIGAR string with an M makes it call sys.exit().
C8_QueryCursor ==
    Encoded =>
        IF "M" \in OperatorsOf(last.rows[1])
        THEN last.enc[1].exited
        ELSE ~last.enc[1].exited /\ last.enc[1].left = Len(last.rows[1].seq)

\* C8 witness: a read with a soft clip and an insertion has been encoded, and
\* the query cursor stands at the end of its sequence.
C8_Witness ==
    /\ Encoded
    /\ OperatorsOf(last.rows[1]) = {"S", "I"}
    /\ ~last.enc[1].exited
    /\ last.enc[1].left = Len(last.rows[1].seq)
    /\ last.enc[1].left >= 2

(***************************************************************************)
(* Errors of the run (under Spec)                                          *)
(***************************************************************************)

\* the record holds an operator that encode_diffs does not handle
UnexpectedOperator(row) == OperatorsOf(row) \ {"=", "X", "S", "I", "D", "H"} # {}

\* the run is going on or has ended with its results
Running == pc \in {"loop", "returned", "done"}

Shape(miss) ==
    IF Len(miss) = 0 THEN "empty"
    ELSE IF Len(miss) = 1 /\ miss[1][1] # 0 /\ miss[1][2] # reflen THEN "internal"
    ELSE "ok"

\* the exception check_miss ends with on a list of that shape
ShapeError(shape) ==
    IF shape = "empty" THEN "IndexError"
    ELSE IF shape = "internal" THEN "SystemExit" ELSE "ok"

\* the last run of the loop body reached merge_diffs with two encoded mates
Merging == Len(last.enc) = 2 /\ ~last.enc[1].exited /\ ~last.enc[2].exited

C11_Cap ==
    stop >= 1 => (count <= stop /\ Len(res) <= stop)

\* C12 (as claimed): when the stream fails, the caller holds the result
\* entries and the depth table of the pairs processed before the failure.
C12_PartialResults ==
    last.err = "ValueError" => Received = <<res, total_coverage>>

\* C12 (amended): a failure of the stream passes through parse_mm2 and ends
\* the process: the step leaves res and the depth table as they were, but the
\* caller receives neither, get_frequencies never runs and no step follows.
C12_FailurePropagates ==
    /\ [](last.err = "ValueError" =>
             (pc = "ValueError" /\ Received = <<>> /\ counts = <<>>))
    /\ [][last'.err = "ValueError" => UNCHANGED <<res, total_coverage, count>>]_vars
    /\ [][last.err # "ValueError"]_vars

\* C12 witness: the stream has failed after one pair was processed in full.
C12_Witness ==
    /\ paired
    /\ last.err = "ValueError"
    /\ pc = "ValueError"
    /\ Len(yielded) = 1 /\ Len(res) = 1
    /\ \E p \in DOMAIN total_coverage : total_coverage[p] = 1

(***************************************************************************)
(* Boundary ranges of encode_diffs (under SpecEncode)                      *)
(***************************************************************************)

\* the read that matches the whole genome
WholeGenome(row) ==
    row.rpos = 0 /\ row.cigar = str(reflen) \o <<"=">>

\* C13: for a read that encode_diffs returns for, the missing-range list
\* starts with (0, reference start) exactly when the reference start is > 0
\* and ends with (final reference cursor, genome length) exactly when that
\* cursor is < genome length; the read matching the whole genome from 0 has no
\* diffs and no missing ranges.
C13_BoundaryRanges ==
    (Encoded /\ ~last.enc[1].exited) =>
        LET row  == last.rows[1]
            e    == last.enc[1]
            miss == e.missing
        IN  /\ (row.rpos > 0) <=> (miss # <<>> /\ miss[1] = <<0, row.rpos>>)
            /\ (e.rpos < reflen) <=> (miss # <<>> /\ miss[Len(miss)] = <<e.rpos, reflen>>)
            /\ WholeGenome(row) => (e.diffs = <<>> /\ miss = <<>>)

\* C13 witness: the read matching the whole genome has been encoded, with no
\* diffs and no missing ranges.
C13_Witness ==
    /\ Encoded
    /\ WholeGenome(last.rows[1])
    /\ ~last.enc[1].exited
    /\ last.enc[1].rpos = reflen
    /\ last.enc[1].diffs = <<>> /\ last.enc[1].missing = <<>>

(***************************************************************************)
(* The depth table (under Spec)                                            *)
(***************************************************************************)

\* the number of coverage intervals [left, right) produced so far that span p
Spanning(p) ==
    Cardinality({i \in 1..Len(covlog) : covlog[i][1] <= p /\ p < covlog[i][2]})

\* C14: the depth table has one counter per position 0..reflen-1, each equal
\* to the number of coverage intervals produced so far that span the position
\* (zero at the start), and no counter ever decreases.
C14_DepthTable ==
    /\ [](/\ DOMAIN total_coverage = 0..(reflen - 1)
          /\ \A p \in 0..(reflen - 1) : total_coverage[p] = Spanning(p))
    /\ [][\A p \in 0..(reflen - 1) : total_coverage'[p] >= total_coverage[p]]_vars

\* C14 witness: after two pairs, one of them with two disjoint intervals, a
\* position has depth 2, another depth 1 and another depth 0.
C14_Witness ==
    /\ paired
    /\ Len(res) = 2 /\ Len(covlog) = 3
    /\ \E p, q, r \in 0..(reflen - 1) :
          total_coverage[p] = 2 /\ total_coverage[q] = 1 /\ total_coverage[r] = 0

(***************************************************************************)
(* The frequency records written by __main__ (under Spec)                  *)
(***************************************************************************)

\* C15: every frequency record stands for a retained diff: its key is the
\* canonical key of the diff, its position is the diff's 0-indexed position
\* plus one (the number embedded in the key), and its denominator is the depth
\* at the diff's position.
C15_RecordPosition ==
    \A rec \in Records :
        \E i \in 1..Len(res) : \E j \in 1..Len(res[i].diff) :
            LET diff == res[i].diff[j]
            IN  /\ rec.mutation = canonical_key(diff)
                /\ rec.position = diff[2] + 1
                /\ rec.coverage = total_coverage[diff[2]]

(***************************************************************************)
(* Mismatch runs of encode_diffs (under SpecEncode)                        *)
(***************************************************************************)

\* encode_diffs' state before the k-th token of the record's CIGAR string
StateBefore(row, k) ==
    EncodeLoop([diffs |-> <<>>,
                missing |-> IF row.rpos > 0 THEN <<<<0, row.rpos>>>> ELSE <<>>,
                left |-> 0, rpos |-> row.rpos, exited |-> FALSE],
               SubSeq(findall(row.cigar), 1, k - 1), row.seq, row.qual)

\* the base call passes: in the accepted alphabet with Phred quality >= minq
Accepted(nt, qc) == nt \in alphabet /\ ord(qc) - 33 >= minq

\* the k-th token of the record, a mismatch run of length L at reference
\* cursor r, emits one missing range (r, r + L) and no substitution when
\* its substring holds a base code of `codes`, and otherwise a substitution for each
\* accepted base and a single-position missing range for each other base, in
\* order; both cursors advance by L
RunEmits(row, k, codes) ==
    LET before == StateBefore(row, k)
        after  == StateBefore(row, k + 1)
        L      == int(findall(row.cigar)[k].length)
        r      == before.rpos
        substr  == [i \in 1..L |-> row.seq[before.left + i]]
        subqual == [i \in 1..L |-> row.qual[before.left + i]]
        Good(i) == Accepted(substr[i], subqual[i])
        Bad(i)  == ~Accepted(substr[i], subqual[i])
        good   == SelectSeq([i \in 1..L |-> i], Good)
        bad    == SelectSeq([i \in 1..L |-> i], Bad)
    IN  /\ after.left = before.left + L
        /\ after.rpos = r + L
        /\ IF \E i \in 1..L : substr[i] \in codes
           THEN /\ after.diffs = before.diffs
                /\ after.missing = Append(before.missing, <<r, r + L>>)
           ELSE /\ after.diffs = before.diffs \o
                       [j \in 1..Len(good) |-> <<"~", r + good[j] - 1, substr[good[j]]>>]
                /\ after.missing = before.missing \o
                       [j \in 1..Len(bad) |-> <<r + bad[j] - 1, r + bad[j]>>]

\* the tokens of the record that are mismatch runs reached by encode_diffs
MismatchRuns(row) ==
    {k \in 1..Len(findall(row.cigar)) :
        findall(row.cigar)[k].operator = "X" /\ ~StateBefore(row, k).exited}

\* the ambiguous base codes (IUPAC)
AmbiguousCodes == {"R", "Y", "S", "W", "K", "M", "B", "D", "H", "V", "N"}

\* C16 (as claimed): a mismatch run holding an ambiguous base code is missing
\* as a whole; any other run is evaluated base by base.
C16_AmbiguousRun ==
    Encoded => \A k \in MismatchRuns(last.rows[1]) : RunEmits(last.rows[1], k, AmbiguousCodes)

\* C16 (amended): a mismatch run holding the base code N is missing as a
\* whole; any other run, one holding another ambiguous code included, is
\* evaluated base by base: a substitution for a base of the alphabet with
\* quality >= minq, a single-position missing range otherwise.
C16_MismatchRun ==
    Encoded => \A k \in MismatchRuns(last.rows[1]) : RunEmits(last.rows[1], k, {"N"})

\* C16 witness: a run of two mismatches, the ambiguous code R then a good T,
\* has given one single-position missing range and one substitution.
C16_Witness ==
    /\ Encoded
    /\ last.rows[1].rpos = 1
    /\ last.rows[1].cigar = <<"2", "X">>
    /\ last.rows[1].seq = <<"R", "T">>
    /\ last.enc[1].diffs = <<<<"~", 2, "T">>>>
    /\ last.enc[1].missing = <<<<0, 1>>, <<1, 2>>, <<3, reflen>>>>
    /\ last.enc[1].left = 2

(***************************************************************************)
(* The pairing cache (under Spec)                                          *)
(***************************************************************************)

\* the line of the most recent record read under query name q
LastLine(q) ==
    CHOOSE i \in 1..Len(seen) :
        seen[i].qname = q /\ \A j \in (i + 1)..Len(seen) : seen[j].qname # q

\* C17: after any prefix of the stream, matchmaker's cache holds a record for
\* exactly the query names read an odd number of times, and that record is the
\* most recent one read under the name; so it is no larger than the number of
\* unmatched names, and a third occurrence of a name leaves the newest pending.
C17_CacheInvariant ==
    paired =>
        /\ DOMAIN cached_rows = {q \in Qnames : Occurrences(q) % 2 = 1}
        /\ \A q \in DOMAIN cached_rows :
              /\ cached_rows[q] = seen[LastLine(q)]
              /\ cached_rows[q].qname = q
              /\ cached_rows[q].ln = LastLine(q)

\* C17 witness: a name has been read three times and another once: the third
\* record of the first and the record of the second are pending.
C17_Witness ==
    /\ paired /\ pc = "loop"
    /\ Len(seen) = 4
    /\ seen[1].qname = "a" /\ seen[2].qname = "a" /\ seen[3].qname = "b"
    /\ seen[4].qname = "a"
    /\ DOMAIN cached_rows = {"a", "b"}
    /\ cached_rows["a"].ln = 4 /\ cached_rows["b"].ln = 3
    /\ Len(yielded) = 1

(***************************************************************************)
(* Retained diffs and coverage (under Spec)                                *)
(***************************************************************************)

\* C18: every diff merge_diffs retains for a pair lies inside one of the
\* coverage intervals [left, right) returned with it, and the frequency of
\* every key written after a run is greater than 0 and at most 1.
C18_RetainedCovered ==
    /\ (Merging /\ last.err = "ok") =>
           \A i \in 1..Len(last.diffs) : \E j \in 1..Len(last.coverage) :
               /\ last.coverage[j][1] <= last.diffs[i][2]
               /\ last.diffs[i][2] < last.coverage[j][2]
    /\ \A rec \in Records :
           /\ 0 < rec.frequency.num
           /\ rec.frequency.num <= rec.frequency.den

====
